---- MODULE Spec2Model ----
(***************************************************************************)
(* Frame-navigation and export state machine of frame_exporter.            *)
(* Two programs live in the repository: exporter.py (a successful export   *)
(* returns to navigation and writes a per-video CSV) and exporter2.py (a   *)
(* successful export ends the video and the rows are written once by       *)
(* main).  The variable `program` selects which of the two is running.     *)
(*                                                                         *)
(* One loop iteration of process_video is: drain pygame.event.get() (one   *)
(* step of the model per event), then the render/autoplay block, then the  *)
(* `while running` test.                                                   *)
(*                                                                         *)
(* output_folder is a directory of its own for every video (named after    *)
(* the video) and no code touches the folder of an earlier video, so the   *)
(* model keeps the contents of the current video's folder only, taken to   *)
(* be empty when os.makedirs creates it.                                   *)
(*                                                                         *)
(* Timestamps (cv2.CAP_PROP_POS_MSEC, a float) are integers in units of    *)
(* 1/10000 ms, so that round(x, 3) is a real operation on them.            *)
(***************************************************************************)
EXTENDS Integers, Sequences, FiniteSets, TLC

\* ---- bounds ----
MaxFrames == 2
MaxVideos == 2

\* Python's None for first_frame / last_frame (frame indices are >= 0).
None == -1

Programs == {"exporter", "exporter2"}

VARIABLES
    program,            \* which script is running
    input_kind,         \* "dir" | "file" | "invalid" : what args.input_path is
    num_videos,         \* len(video_files)
    usage,              \* args.usage: --usage was given
    output_folder,      \* exporter2.py main: "" until a folder is selected
    video,              \* index of the video being processed (0 before the first)
    pc,                 \* position of the process
    exit_code,          \* process exit status once pc is "done" or "crashed"
    frame_count,
    current_frame,
    first_frame,
    last_frame,
    accident_occurred,
    paused,
    running,
    event,              \* the event being dispatched by the for loop
    space_key,          \* exporter2.py: what pygame.key.get_pressed()[K_SPACE] rests
                        \* on: "up", "pressed" (went down during this loop
                        \* iteration) or "held" (down since an earlier iteration)
    images,             \* the n with a frame_<n>.jpg in output_folder, the folder
                        \* of the video being processed
    csv,                \* exporter.py: rows of <video_name>_output.csv in output_folder
    video_info_list,    \* exporter2.py: rows accumulated by main
    output_csv,         \* exporter2.py: <<>> until output.csv is written, then <<rows>>
    quit_handled,       \* history: a pygame.QUIT event has been handled
    toggle_trace        \* history: MarkState before each of the latest consecutive
                        \* K_f presses at one frame (at most two kept)

vars == <<program, input_kind, num_videos, usage, output_folder, space_key, video, pc, exit_code, frame_count,
          current_frame, first_frame, last_frame, accident_occurred, paused,
          running, event, images, csv, video_info_list, output_csv,
          quit_handled, toggle_trace>>

mainVars    == <<program, input_kind, num_videos, usage>>
markVars    == <<first_frame, last_frame, accident_occurred>>
outputVars  == <<images, csv, video_info_list, output_csv>>

Min(a, b) == IF a < b THEN a ELSE b
Max(a, b) == IF a > b THEN a ELSE b

\* ---- pure helpers ----

\* cap.get(cv2.CAP_PROP_POS_MSEC) after reading frame n of a 30 fps video.
PosMsec(n) == (n * 10000000) \div 30

\* round(x, 3): nearest multiple of 0.001 ms, ties to even.
Round3(x) ==
    LET q == x \div 10
        r == x % 10
    IN  IF r < 5 THEN q * 10
        ELSE IF r > 5 THEN (q + 1) * 10
        ELSE IF q % 2 = 0 THEN q * 10 ELSE (q + 1) * 10

\* Variants of the K_f handler with a slip: one never clears last_frame, one
\* always marks and never unmarks.
ToggleFirst_KeepsLast(first, last, cur) ==
    <<IF first = cur THEN None ELSE cur, last>>

ToggleFirst_NeverUnmarks(first, last, cur) == <<cur, last>>

\* K_f handler, as a function of the marks and the current frame.
ToggleFirst(first, last, cur) ==
    LET f == IF first = cur THEN None ELSE cur
    IN  <<f, IF f = None THEN None ELSE last>>

\* Variant of the K_l handler that marks and never unmarks.
ToggleLast_NeverClears(last, cur) == cur

\* K_l handler.
ToggleLast(last, cur) == IF last = cur THEN None ELSE cur

\* Variant of the backward step without the clamp.
StepBack_NoClamp(cur) == cur - 1

StepBack(cur) == Max(0, cur - 1)

\* Variant of the forward step without the clamp.
StepForward_NoClamp(cur, fc) == cur + 1

StepForward(cur, fc) == Min(fc - 1, cur + 1)

\* Variant of the export gate that tests first_frame only.
ExportGate_FirstOnly(first, last) == first # None

\* `if first_frame is not None and last_frame is not None`
ExportGate(first, last) == first # None /\ last # None

\* save_frames: the timestamps list, given which of the two reads succeed.
SaveFramesTimestamps(first, last, acc, ok1, ok2) ==
    LET status == IF acc THEN "Accident" ELSE "No Accident"
        e1 == IF ok1 THEN << <<first, PosMsec(first), status>> >> ELSE <<>>
        e2 == IF ok2 THEN << <<last, PosMsec(last), status>> >> ELSE <<>>
    IN  e1 \o e2

\* Variant of save_frames that saves the first marked frame only.
SaveFramesFiles_FirstOnly(first, last, ok1, ok2) ==
    IF ok1 THEN {first} ELSE {}

\* save_frames: the files cv2.imwrite creates in the video's output folder.
SaveFramesFiles(first, last, ok1, ok2) ==
    (IF ok1 THEN {first} ELSE {}) \cup (IF ok2 THEN {last} ELSE {})

\* Variant of event_data that orders the two marks as a range.
EventData_Ordered(first, last, acc, timestamps) ==
    LET lo == Min(first, last)
        hi == Max(first, last)
        lo_ms == Round3(PosMsec(lo))
        hi_ms == Round3(PosMsec(hi))
    IN  <<lo, lo_ms, hi, hi_ms, Round3(hi_ms - lo_ms), acc>>

\* exporter.py: event_data
EventData(first, last, acc, timestamps) ==
    LET first_frame_ms == Round3(timestamps[1][2])
        last_frame_ms  == Round3(timestamps[2][2])
        time_difference_ms == Round3(last_frame_ms - first_frame_ms)
    IN  <<first, first_frame_ms, last, last_frame_ms, time_difference_ms, acc>>

\* exporter.py: open(csv_filename, "w") leaves the header only; write_csv appends.
OpenW(rows) == <<>>
WriteCsv(row, rows) == Append(rows, row)

\* Variant of the appended tuple that names every row after the first video.
VideoInfo_FirstName(v, acc, timestamps) ==
    <<1, timestamps[1][2], timestamps[2][2], acc>>

\* exporter2.py: the tuple appended to video_info_list
VideoInfo(v, acc, timestamps) == <<v, timestamps[1][2], timestamps[2][2], acc>>

\* ---- initial state ----
Init ==
    /\ program \in Programs
    /\ input_kind \in {"dir", "file", "invalid", "missing"}
    /\ usage \in BOOLEAN
    /\ num_videos \in 0..MaxVideos
    /\ (input_kind = "file" => num_videos = 1)
    /\ (input_kind \in {"invalid", "missing"} => num_videos = 0)
    /\ output_folder = ""
    /\ space_key = "up"
    /\ video = 0
    /\ pc = "main"
    /\ exit_code = None
    /\ frame_count = 1
    /\ current_frame = 0
    /\ first_frame = None
    /\ last_frame = None
    /\ accident_occurred = FALSE
    /\ paused = FALSE
    /\ running = FALSE
    /\ event = "none"
    /\ images = {}
    /\ csv = <<>>
    /\ video_info_list = <<>>
    /\ output_csv = <<>>
    /\ quit_handled = FALSE
    /\ toggle_trace = <<>>

sessionVars == <<frame_count, current_frame, first_frame, last_frame,
                 accident_occurred, paused, running, event, toggle_trace>>

\* ---- main ----
Exit(code) ==
    /\ pc' = "done"
    /\ exit_code' = code

\* The process dies of an exception nothing catches.
Crash ==
    /\ pc' = "crashed"
    /\ exit_code' = 1

\* exporter2.py parse_arguments: `if args.usage`.  exporter.py parses the flag
\* and never reads it.
UsageExits == program = "exporter2" /\ usage

\* main: parse_arguments, then dispatch on args.input_path.  Without a path
\* argument input_path is None and os.path.isdir(None) raises TypeError.
Main ==
    /\ pc = "main"
    /\ \/ /\ UsageExits
          /\ Exit(0)
       \/ /\ ~UsageExits
          /\ input_kind = "missing"
          /\ Crash
       \/ /\ ~UsageExits
          /\ input_kind = "dir"
          /\ pc' = IF program = "exporter2" THEN "select" ELSE "batch"
          /\ UNCHANGED exit_code
       \/ /\ ~UsageExits
          /\ input_kind = "file"
          /\ pc' = "batch"
          /\ UNCHANGED exit_code
       \/ /\ ~UsageExits
          /\ input_kind = "invalid"
          /\ Exit(1)
    /\ UNCHANGED <<mainVars, output_folder, space_key, video, sessionVars, outputVars, quit_handled>>

\* exporter2.py main: output_folder = select_output_folder()
SelectOutputFolder ==
    /\ pc = "select"
    /\ \E chosen \in {"", "folder"} :
          /\ output_folder' = chosen
          /\ IF chosen # "" THEN pc' = "batch" /\ UNCHANGED exit_code
             ELSE Exit(1)
    /\ UNCHANGED <<mainVars, space_key, video, sessionVars, outputVars, quit_handled>>

\* main: the head of `for video_file in video_files`, entering process_video.
NextVideo ==
    /\ pc = "batch"
    /\ video < num_videos
    /\ video' = video + 1
    /\ pc' = "open"
    /\ UNCHANGED <<mainVars, output_folder, space_key, exit_code, sessionVars, outputVars, quit_handled>>

\* Variant of the end of main that writes output.csv only when there are rows.
Finish_SkipsEmptyList ==
    /\ pc = "batch"
    /\ video >= num_videos
    /\ output_csv' = IF program = "exporter2" /\ video_info_list # <<>>
                     THEN <<video_info_list>> ELSE output_csv
    /\ Exit(0)
    /\ UNCHANGED <<mainVars, output_folder, space_key, video, sessionVars, images,
                   csv, video_info_list, quit_handled>>

\* main: after the last video (exporter2.py writes output.csv here).
Finish ==
    /\ pc = "batch"
    /\ video >= num_videos
    /\ output_csv' = IF program = "exporter2" THEN <<video_info_list>> ELSE output_csv
    /\ Exit(0)
    /\ UNCHANGED <<mainVars, output_folder, space_key, video, sessionVars, images, csv, video_info_list,
                   quit_handled>>

\* Variant of the start of process_video that carries the marks, the flag,
\* the position and the pause state over from the previous video.
InitialLocals_KeptFromBefore(first, last, acc, cur, isPaused) ==
    <<first, last, acc, cur, isPaused>>

\* process_video: first_frame, last_frame, accident_occurred, current_frame
\* and paused as the loop starts; the arguments are what they were before.
InitialLocals(first, last, acc, cur, isPaused) == <<None, None, FALSE, 0, FALSE>>

\* process_video up to the loop: initialize_video and the local variables.
OpenVideo ==
    /\ pc = "open"
    /\ images' = {}                 \* os.makedirs(output_folder)
    /\ csv' = <<>>
    /\ \E outcome \in {"ok", "not_opened", "no_first_frame"} :
          \/ /\ outcome = "not_opened"
             /\ Exit(1)
             /\ UNCHANGED sessionVars
          \/ /\ outcome = "no_first_frame"     \* img is None: img.shape raises
             /\ Crash
             /\ UNCHANGED sessionVars
          \/ /\ outcome = "ok"
             /\ frame_count' \in 1..MaxFrames
             /\ LET l == InitialLocals(first_frame, last_frame, accident_occurred,
                                       current_frame, paused)
                IN  /\ first_frame' = l[1]
                    /\ last_frame' = l[2]
                    /\ accident_occurred' = l[3]
                    /\ current_frame' = l[4]
                    /\ paused' = l[5]
             /\ running' = TRUE
             /\ event' = "none"
             /\ toggle_trace' = <<>>
             /\ pc' = "events"
             /\ UNCHANGED exit_code
    /\ space_key' = "up"            \* pygame starts anew with set_mode
    /\ UNCHANGED <<mainVars, output_folder, video, video_info_list, output_csv, quit_handled>>

\* ---- the event loop: one step per event of `for event in pygame.event.get()` ----

\* Common part of every handler that leaves the marks alone.
Dispatch(e) ==
    /\ pc = "events"
    /\ event' = e

\* MarkState before a K_f press, kept for the latest two consecutive presses.
Snapshot == <<first_frame, last_frame, accident_occurred>>
PushTrace(t, s) == IF Len(t) < 2 THEN Append(t, s) ELSE <<t[2], s>>

\* event.type == pygame.QUIT
Quit ==
    /\ Dispatch("QUIT")
    /\ running' = FALSE
    /\ quit_handled' = TRUE
    /\ toggle_trace' = <<>>
    /\ UNCHANGED <<mainVars, output_folder, space_key, video, pc, exit_code, frame_count, current_frame,
                   markVars, paused, outputVars>>

\* MOUSEBUTTONDOWN, button 4
ScrollUp ==
    /\ Dispatch("SCROLL_UP")
    /\ current_frame' = StepBack(current_frame)
    /\ toggle_trace' = <<>>
    /\ UNCHANGED <<mainVars, output_folder, space_key, video, pc, exit_code, frame_count, markVars, paused,
                   running, outputVars, quit_handled>>

\* MOUSEBUTTONDOWN, button 5
ScrollDown ==
    /\ Dispatch("SCROLL_DOWN")
    /\ current_frame' = StepForward(current_frame, frame_count)
    /\ toggle_trace' = <<>>
    /\ UNCHANGED <<mainVars, output_folder, space_key, video, pc, exit_code, frame_count, markVars, paused,
                   running, outputVars, quit_handled>>

\* K_f
KeyF ==
    /\ Dispatch("K_f")
    /\ LET t == ToggleFirst(first_frame, last_frame, current_frame)
       IN  /\ first_frame' = t[1]
           /\ last_frame' = t[2]
    /\ toggle_trace' = PushTrace(toggle_trace, Snapshot)
    /\ UNCHANGED <<mainVars, output_folder, space_key, video, pc, exit_code, frame_count, current_frame,
                   accident_occurred, paused, running, outputVars, quit_handled>>

\* K_l
KeyL ==
    /\ Dispatch("K_l")
    /\ last_frame' = ToggleLast(last_frame, current_frame)
    /\ toggle_trace' = <<>>
    /\ UNCHANGED <<mainVars, output_folder, space_key, video, pc, exit_code, frame_count, current_frame,
                   first_frame, accident_occurred, paused, running, outputVars,
                   quit_handled>>

\* K_COMMA (exporter.py clamps on both sides, exporter2.py on the side it moves to)
KeyComma ==
    /\ Dispatch("K_COMMA")
    /\ current_frame' = IF program = "exporter"
                        THEN Max(0, Min(frame_count - 1, current_frame - 1))
                        ELSE StepBack(current_frame)
    /\ toggle_trace' = <<>>
    /\ UNCHANGED <<mainVars, output_folder, space_key, video, pc, exit_code, frame_count, markVars, paused,
                   running, outputVars, quit_handled>>

\* K_PERIOD
KeyPeriod ==
    /\ Dispatch("K_PERIOD")
    /\ current_frame' = IF program = "exporter"
                        THEN Max(0, Min(frame_count - 1, current_frame + 1))
                        ELSE StepForward(current_frame, frame_count)
    /\ toggle_trace' = <<>>
    /\ UNCHANGED <<mainVars, output_folder, space_key, video, pc, exit_code, frame_count, markVars, paused,
                   running, outputVars, quit_handled>>

\* K_a
KeyA ==
    /\ Dispatch("K_a")
    /\ accident_occurred' = ~accident_occurred
    /\ toggle_trace' = <<>>
    /\ UNCHANGED <<mainVars, output_folder, space_key, video, pc, exit_code, frame_count, current_frame,
                   first_frame, last_frame, paused, running, outputVars,
                   quit_handled>>

\* K_F11: only the display mode changes.
KeyF11 ==
    /\ Dispatch("K_F11")
    /\ toggle_trace' = <<>>
    /\ UNCHANGED <<mainVars, output_folder, space_key, video, pc, exit_code, frame_count, current_frame,
                   markVars, paused, running, outputVars, quit_handled>>

\* Variant of the K_n handler that drops the marks and leaves running.
AfterSkip_KeepsRunning(first, last, isRunning) == <<None, None, isRunning>>

\* exporter.py K_n: first_frame, last_frame and running after the press.
AfterSkip(first, last, isRunning) == <<None, None, FALSE>>

\* K_n (exporter.py only)
KeyN ==
    /\ program = "exporter"
    /\ Dispatch("K_n")
    /\ LET a == AfterSkip(first_frame, last_frame, running)
       IN  /\ first_frame' = a[1]
           /\ last_frame' = a[2]
           /\ running' = a[3]
    /\ toggle_trace' = <<>>
    /\ UNCHANGED <<mainVars, output_folder, space_key, video, pc, exit_code, frame_count, current_frame,
                   accident_occurred, paused, outputVars, quit_handled>>

\* KEYDOWN of K_SPACE.  exporter.py toggles paused in the handler (and never
\* reads the key state).  exporter2.py has no branch for the event: the press
\* only shows in pygame.key.get_pressed() after the for loop.
KeySpace ==
    /\ Dispatch("K_SPACE")
    /\ IF program = "exporter"
       THEN paused' = ~paused /\ UNCHANGED space_key
       ELSE space_key = "up" /\ space_key' = "pressed" /\ UNCHANGED paused
    /\ toggle_trace' = <<>>
    /\ UNCHANGED <<mainVars, output_folder, video, pc, exit_code, frame_count,
                   current_frame, markVars, running, outputVars, quit_handled>>

\* KEYUP of K_SPACE (exporter2.py: get_pressed() no longer reports the key).
KeyUpSpace ==
    /\ program = "exporter2"
    /\ space_key # "up"
    /\ Dispatch("KEYUP")
    /\ space_key' = "up"
    /\ toggle_trace' = <<>>
    /\ UNCHANGED <<mainVars, output_folder, video, pc, exit_code, frame_count,
                   current_frame, markVars, paused, running, outputVars,
                   quit_handled>>

\* Events no branch of the loop handles: the USEREVENT timer exporter.py arms
\* while paused, and in exporter2.py the K_n key press.
IgnoredEvents ==
    IF program = "exporter" THEN {"USEREVENT"} ELSE {"USEREVENT", "K_n"}

Ignored ==
    /\ \E e \in IgnoredEvents : Dispatch(e)
    /\ toggle_trace' = <<>>
    /\ UNCHANGED <<mainVars, output_folder, space_key, video, pc, exit_code, frame_count, current_frame,
                   markVars, paused, running, outputVars, quit_handled>>

\* K_e while a mark is missing: the body of the `if` is skipped.
KeyENoMarks ==
    /\ Dispatch("K_e")
    /\ ~ExportGate(first_frame, last_frame)
    /\ toggle_trace' = <<>>
    /\ UNCHANGED <<mainVars, output_folder, space_key, video, pc, exit_code, frame_count, current_frame,
                   markVars, paused, running, outputVars, quit_handled>>

\* Variant of the reset after an export that leaves the accident flag.
AfterExportMarks_KeepsAccident(first, last, acc) == <<None, None, acc>>

\* exporter.py: the marks after a successful export (lines 127-128).
AfterExportMarks(first, last, acc) == <<None, None, FALSE>>

\* K_e with both marks set; ok1 and ok2 say which of the two reads of
\* save_frames succeed.  With fewer than two entries, timestamps[1] (or
\* timestamps[0]) raises IndexError, which nothing catches.
KeyEExport(ok1, ok2) ==
    /\ Dispatch("K_e")
    /\ ExportGate(first_frame, last_frame)
    /\ toggle_trace' = <<>>
    /\    LET timestamps == SaveFramesTimestamps(first_frame, last_frame,
                                                 accident_occurred, ok1, ok2)
          IN  /\ images' = images \cup
                     SaveFramesFiles(first_frame, last_frame, ok1, ok2)
              /\ IF Len(timestamps) < 2
                 THEN /\ Crash
                      /\ UNCHANGED <<markVars, csv, video_info_list>>
                 ELSE IF program = "exporter"
                 THEN /\ csv' = WriteCsv(EventData(first_frame, last_frame,
                                                 accident_occurred, timestamps),
                                       OpenW(csv))
                      /\ LET m == AfterExportMarks(first_frame, last_frame,
                                                   accident_occurred)
                         IN  /\ first_frame' = m[1]
                             /\ last_frame' = m[2]
                             /\ accident_occurred' = m[3]
                      /\ UNCHANGED <<pc, exit_code, video_info_list>>
                 ELSE /\ video_info_list' =
                              Append(video_info_list,
                                     VideoInfo(video, accident_occurred, timestamps))
                      /\ pc' = "batch"              \* pygame.quit(); return
                      /\ UNCHANGED <<exit_code, markVars, csv>>
    /\ UNCHANGED <<mainVars, output_folder, space_key, video, frame_count, current_frame, paused, running,
                   output_csv, quit_handled>>

\* K_e
KeyE ==
    \/ KeyENoMarks
    \/ \E ok1 \in BOOLEAN, ok2 \in BOOLEAN : KeyEExport(ok1, ok2)

\* The for loop has no more events.
EndDrain ==
    /\ pc = "events"
    /\ pc' = "render"
    /\ UNCHANGED <<mainVars, output_folder, space_key, video, exit_code, sessionVars, outputVars, quit_handled>>

\* exporter.py: current_frame after the render block.
Autoplay(cur, fc, isPaused) == IF ~isPaused THEN Min(fc - 1, cur + 1) ELSE cur

\* The block after the for loop, then the `while running` test; leaving the
\* loop runs pygame.quit(), cap.release() and returns to main.
\* success: the result of cap.read().
RenderWith(success) ==
    /\ pc = "render"
    /\ LET space == space_key # "up"     \* keys[pygame.K_SPACE]
       IN  IF program = "exporter"
           THEN /\ current_frame' =
                      IF current_frame < frame_count
                      THEN Autoplay(current_frame, frame_count, paused)
                      ELSE current_frame
                /\ UNCHANGED paused
           ELSE /\ paused' = IF space THEN ~paused ELSE paused
                /\ current_frame' =
                      IF (~paused' \/ space) /\ current_frame < frame_count /\ success
                      THEN StepForward(current_frame, frame_count)
                      ELSE current_frame
    /\ space_key' = IF space_key = "pressed" THEN "held" ELSE space_key
    /\ toggle_trace' = IF current_frame' = current_frame THEN toggle_trace ELSE <<>>
    /\ pc' = IF running THEN "events" ELSE "batch"
    /\ UNCHANGED <<mainVars, output_folder, video, exit_code, frame_count, markVars, running,
                   event, outputVars, quit_handled>>

Render == \E success \in BOOLEAN : RenderWith(success)

Next ==
    \/ Main
    \/ SelectOutputFolder
    \/ NextVideo
    \/ Finish
    \/ OpenVideo
    \/ Quit
    \/ ScrollUp
    \/ ScrollDown
    \/ KeyF
    \/ KeyL
    \/ KeyComma
    \/ KeyPeriod
    \/ KeyA
    \/ KeyF11
    \/ KeyN
    \/ KeySpace
    \/ KeyUpSpace
    \/ Ignored
    \/ KeyE
    \/ EndDrain
    \/ Render

Spec == Init /\ [][Next]_vars

\* ---- properties ----

InSession == pc \in {"events", "render"}
Marks == <<first_frame, last_frame, accident_occurred>>

\* C1, as the specification states it: in every state of a video session,
\* last_frame is set only if first_frame is set.
C1_LastOnlyIfFirst ==
    InSession => (last_frame # None => first_frame # None)

\* C1, amended: after a K_f press (and until the next event is handled)
\* last_frame is set only if first_frame is set; the K_f that clears
\* first_frame clears last_frame in the same transition.
C1_FirstToggleKeepsI1 ==
    (InSession /\ event = "K_f") => (last_frame # None => first_frame # None)

\* A K_f press has just unmarked first_frame while last_frame was set.
C1_Witness ==
    /\ pc = "events"
    /\ event = "K_f"
    /\ Len(toggle_trace) = 1
    /\ toggle_trace[1][1] = current_frame
    /\ toggle_trace[1][2] # None
    /\ first_frame = None
    /\ last_frame = None

\* C2: an export in which a read fails leaves the marks as they were, writes
\* no image and no record, and stays in the event loop.
C2_DecodeFailureAborts ==
    [][(\E ok1 \in BOOLEAN, ok2 \in BOOLEAN :
            ~(ok1 /\ ok2) /\ KeyEExport(ok1, ok2))
        => /\ UNCHANGED <<first_frame, last_frame, accident_occurred>>
           /\ UNCHANGED <<images, csv, video_info_list, output_csv>>
           /\ pc' = "events"]_vars

\* C3: K_e handled while first_frame or last_frame is None changes none of
\* the marks, the position, paused or running, writes nothing, and leaves
\* the session open.
C3_ExportWithoutMarksIsNoOp ==
    [][(KeyE /\ (first_frame = None \/ last_frame = None))
        => /\ UNCHANGED <<first_frame, last_frame, accident_occurred>>
           /\ UNCHANGED <<current_frame, paused, running>>
           /\ UNCHANGED <<images, csv, video_info_list, output_csv>>
           /\ UNCHANGED <<pc, video, exit_code>>]_vars

\* K_e was the last event handled and last_frame is still set without
\* first_frame: the press was ignored.
C3_Witness ==
    /\ pc = "events"
    /\ event = "K_e"
    /\ first_frame = None
    /\ last_frame # None
    /\ images = {}

\* C4: with frame_count >= 1, current_frame is in 0..frame_count-1 in every
\* reachable state.
C4_CurrentFrameInRange ==
    frame_count >= 1 => (0 <= current_frame /\ current_frame <= frame_count - 1)

\* A forward step was handled at the last frame of a video of several frames.
C4_Witness ==
    /\ InSession
    /\ event \in {"K_PERIOD", "SCROLL_DOWN"}
    /\ paused
    /\ frame_count > 1
    /\ current_frame = frame_count - 1

\* C5, as the specification states it: after two K_f presses in a row at one
\* frame the marks are what they were before the first press, with
\* last_frame cleared.
C5_TwiceRestores ==
    (InSession /\ Len(toggle_trace) = 2)
        => Marks = <<toggle_trace[1][1], None, toggle_trace[1][3]>>

\* C5, amended: the pair restores first_frame when it was empty or the
\* frame pressed at; when it marked another frame the pair leaves it empty.
\* last_frame ends empty and accident_occurred is untouched in both cases.
C5_TwiceRestoresOwnMark ==
    (InSession /\ Len(toggle_trace) = 2)
        => LET before == toggle_trace[1]
           IN  IF before[1] \in {None, current_frame}
               THEN Marks = <<before[1], None, before[3]>>
               ELSE Marks = <<None, None, before[3]>>

\* Two K_f presses at the marked first frame, with last_frame set before.
C5_Witness ==
    /\ InSession
    /\ Len(toggle_trace) = 2
    /\ toggle_trace[1][1] = current_frame
    /\ toggle_trace[1][2] # None
    /\ first_frame = current_frame
    /\ last_frame = None


\* A K_e step with both marks set in which both reads succeed.
ExportSucceeds == KeyEExport(TRUE, TRUE)

\* The rows an export writes to: the video's CSV (exporter.py) or
\* video_info_list (exporter2.py).
Records == IF program = "exporter" THEN csv ELSE video_info_list

\* C6: once a pygame.QUIT event has been handled, main starts no further
\* video of the batch.
C6_QuitEndsBatch ==
    [][quit_handled => video' = video]_vars

\* C7: a successful export adds one row after the rows already written and
\* leaves those as they were.
C7_RecordsAppendOnly ==
    [][ExportSucceeds
        => /\ Len(Records') = Len(Records) + 1
           /\ SubSeq(Records', 1, Len(Records)) = Records]_vars

\* C8, as the specification states it: the row of a successful export holds
\* first_frame and last_frame as marked and the difference last timestamp
\* minus first timestamp.
C8_RecordHasIndicesAndDifference ==
    [][ExportSucceeds
        => LET row == Records'[Len(Records')]
           IN  /\ Len(row) = 6
               /\ row[1] = first_frame
               /\ row[3] = last_frame
               /\ row[5] = row[4] - row[2]]_vars

\* C8, amended: exporter.py's row holds the marks as marked, the timestamp
\* of each (rounded to 0.001 ms) and the signed difference of the two
\* recorded timestamps; exporter2.py's row holds the video, the two
\* timestamps in mark order and the accident flag, and nothing else.
C8_RecordPerProgram ==
    [][ExportSucceeds
        => LET row == Records'[Len(Records')]
           IN  IF program = "exporter"
               THEN /\ Len(row) = 6
                    /\ row[1] = first_frame
                    /\ row[2] = Round3(PosMsec(first_frame))
                    /\ row[3] = last_frame
                    /\ row[4] = Round3(PosMsec(last_frame))
                    /\ row[5] = row[4] - row[2]
                    /\ (last_frame < first_frame => row[5] < 0)
               ELSE /\ Len(row) = 4
                    /\ row[1] = video
                    /\ row[2] = PosMsec(first_frame)
                    /\ row[3] = PosMsec(last_frame)]_vars

\* exporter.py has exported marks in reversed order: the row keeps the order
\* and its difference is negative.
C8_Witness ==
    /\ program = "exporter"
    /\ pc = "events"
    /\ event = "K_e"
    /\ Len(csv) = 1
    /\ csv[1][1] > csv[1][3]
    /\ csv[1][5] < 0
    /\ first_frame = None

\* C9, as the specification states it: a successful export leaves two image
\* files, frame_<first_frame> and frame_<last_frame>, in the video's folder
\* and writes one row carrying the accident flag of the moment.
C9_TwoImagesOneRecord ==
    [][ExportSucceeds
        => /\ images' = images \cup {first_frame, last_frame}
           /\ Cardinality(SaveFramesFiles(first_frame, last_frame, TRUE, TRUE)) = 2
           /\ LET row == Records'[Len(Records')]
              IN  row[Len(row)] = accident_occurred]_vars

\* C9, amended: the export writes frame_<first_frame> and frame_<last_frame>
\* and no other image, which is one file when the two marks are the same
\* frame; it writes one row carrying the accident flag of the moment:
\* exporter.py's CSV then holds that row, exporter2.py's list grows by it.
C9_ImagesByIndexOneRecord ==
    [][ExportSucceeds
        => /\ images' = images \cup {first_frame, last_frame}
           /\ Cardinality(images' \ images) <= 2
           /\ (first_frame = last_frame => Cardinality(images' \ images) <= 1)
           /\ LET row == Records'[Len(Records')]
              IN  /\ row[Len(row)] = accident_occurred
                  /\ IF program = "exporter"
                     THEN csv' = <<row>> /\ video_info_list' = video_info_list
                     ELSE video_info_list' = Append(video_info_list, row)
                          /\ csv' = csv]_vars

\* exporter.py has exported with both marks on one frame: one image file.
C9_Witness ==
    /\ program = "exporter"
    /\ pc = "events"
    /\ event = "K_e"
    /\ Len(csv) = 1
    /\ csv[1][1] = csv[1][3]
    /\ images = {csv[1][1]}
    /\ csv[1][6] = TRUE

\* C10, as the specification states it: a successful export empties both
\* marks and the accident flag, keeps current_frame and paused, and goes on
\* in the event loop of the same video.
C10_ExportResetsAndContinues ==
    [][ExportSucceeds
        => /\ Marks' = <<None, None, FALSE>>
           /\ UNCHANGED <<current_frame, paused, running, video>>
           /\ pc' = "events"]_vars

\* C10, amended: that holds in exporter.py; in exporter2.py a successful
\* export returns from process_video, which ends the video, with
\* current_frame and paused as they were.
C10_ExportPolicyPerProgram ==
    [][ExportSucceeds
        => /\ UNCHANGED <<current_frame, paused, running, video>>
           /\ IF program = "exporter"
              THEN Marks' = <<None, None, FALSE>> /\ pc' = "events"
              ELSE pc' = "batch"]_vars

\* exporter.py has exported with the accident flag set, while paused away
\* from frame 0, and is back in the event loop with empty marks.
C10_Witness ==
    /\ program = "exporter"
    /\ pc = "events"
    /\ event = "K_e"
    /\ running
    /\ paused
    /\ current_frame > 0
    /\ Len(csv) = 1
    /\ csv[1][6] = TRUE
    /\ Marks = <<None, None, FALSE>>


\* The process has ended.
Terminated == pc \in {"done", "crashed"}

\* A K_n key press is being handled (exporter2.py has no branch for it).
KeyNStep == KeyN \/ (Ignored /\ event' = "K_n")

\* C11, as the specification states it: handling K_n ends the loop of the
\* current video (running becomes false), empties both marks and writes no
\* image and no row.
C11_NextVideoEndsSession ==
    [][KeyNStep
        => /\ running' = FALSE
           /\ first_frame' = None
           /\ last_frame' = None
           /\ UNCHANGED <<images, csv, video_info_list, output_csv>>]_vars

\* C11, amended: in exporter.py handling K_n sets running to false, empties
\* both marks and writes nothing; running then stays false, the loop is left
\* after the render block without a write, and main goes on to the next
\* video or ends after the last.  In exporter2.py K_n changes nothing.
C11_NextVideoPerProgram ==
    [][/\ KeyNStep
            => /\ UNCHANGED <<images, csv, video_info_list, output_csv>>
               /\ UNCHANGED <<pc, video, current_frame, paused, accident_occurred>>
               /\ IF program = "exporter"
                  THEN running' = FALSE /\ first_frame' = None /\ last_frame' = None
                  ELSE UNCHANGED <<running, first_frame, last_frame>>
       /\ (InSession /\ ~running /\ pc' \in {"events", "render"}) => ~running'
       /\ (pc = "render" /\ ~running)
            => /\ pc' = "batch"
               /\ UNCHANGED <<images, csv, video_info_list, output_csv, video>>
       /\ pc = "batch"
            => \/ video < num_videos /\ pc' = "open" /\ video' = video + 1
               \/ video = num_videos /\ pc' = "done" /\ video' = video]_vars

\* exporter.py has left a video after K_n, with the accident flag set and
\* nothing written, and a further video to go.
C11_Witness ==
    /\ program = "exporter"
    /\ event = "K_n"
    /\ pc = "batch"
    /\ video < num_videos
    /\ ~quit_handled
    /\ accident_occurred
    /\ first_frame = None
    /\ last_frame = None
    /\ images = {}
    /\ csv = <<>>

\* C12: when the loop of a video starts, both marks are empty, the accident
\* flag is false, current_frame is 0 and paused is false.
C12_FreshStatePerVideo ==
    [][(pc = "open" /\ pc' = "events")
        => /\ first_frame' = None
           /\ last_frame' = None
           /\ accident_occurred' = FALSE
           /\ current_frame' = 0
           /\ paused' = FALSE]_vars

\* The second video has just started fresh, the first having been closed by
\* a QUIT event.
C12_Witness ==
    /\ video = 2
    /\ pc = "events"
    /\ event = "none"
    /\ quit_handled
    /\ Marks = <<None, None, FALSE>>
    /\ current_frame = 0
    /\ ~paused

\* C13, as the specification states it: a directory batch that completes
\* has written the aggregate output with one row per video, in order.
C13_AggregateOneRowPerVideo ==
    (pc = "done" /\ exit_code = 0 /\ input_kind = "dir" /\ ~UsageExits)
        => /\ Len(output_csv) = 1
           /\ Len(output_csv[1]) = num_videos
           /\ \A i \in 1..num_videos : output_csv[1][i][1] = i

\* C13, amended: videos are started one at a time, each after the previous
\* one is closed; exporter2.py writes output.csv once, after the last video,
\* with the rows of video_info_list, which hold at most one row per video in
\* processing order (a row for each video that ended with a successful
\* export); exporter.py never writes an aggregate output.
C13_AggregatePerProgram ==
    [][/\ video' # video => (pc = "batch" /\ pc' = "open" /\ video' = video + 1)
       /\ output_csv' # output_csv
            => /\ program = "exporter2"
               /\ output_csv = <<>>
               /\ pc = "batch" /\ video = num_videos /\ pc' = "done"
               /\ output_csv' = <<video_info_list>>
       /\ (pc' = "done" /\ pc = "batch")
            => IF program = "exporter2" THEN Len(output_csv') = 1
                                        ELSE output_csv' = <<>>
       /\ \A i \in 1..Len(video_info_list') :
             /\ video_info_list'[i][1] \in 1..video'
             /\ i > 1 => video_info_list'[i - 1][1] < video_info_list'[i][1]]_vars

\* exporter2.py has completed a batch of two videos in which only the second
\* was exported: output.csv holds the one row.
C13_Witness ==
    /\ program = "exporter2"
    /\ pc = "done"
    /\ exit_code = 0
    /\ input_kind = "dir"
    /\ num_videos = 2
    /\ output_csv = <<video_info_list>>
    /\ Len(video_info_list) = 1
    /\ video_info_list[1][1] = 2

\* C14, as the specification states it: a batch over a directory without
\* videos ends with exit code 0 and an aggregate output of zero rows.
C14_EmptyBatchWritesEmptyOutput ==
    (Terminated /\ input_kind = "dir" /\ num_videos = 0 /\ ~usage)
        => (exit_code = 0 /\ output_csv = << <<>> >>)

\* C14, amended: exporter2.py does so once an output folder was selected
\* (without one it exits with 1 and writes nothing); exporter.py ends with
\* exit code 0 and writes no output.  No video is opened.
C14_EmptyBatchPerProgram ==
    (Terminated /\ input_kind = "dir" /\ num_videos = 0 /\ ~usage)
        => /\ video = 0
           /\ IF program = "exporter"
              THEN exit_code = 0 /\ output_csv = <<>>
              ELSE IF output_folder = ""
              THEN exit_code = 1 /\ output_csv = <<>>
              ELSE exit_code = 0 /\ output_csv = << <<>> >>

\* exporter2.py has completed a batch over a directory without videos.
C14_Witness ==
    /\ program = "exporter2"
    /\ pc = "done"
    /\ input_kind = "dir"
    /\ num_videos = 0
    /\ ~usage
    /\ output_folder # ""
    /\ exit_code = 0
    /\ output_csv = << <<>> >>

\* C15: the process ends with exit code 0 when --usage is all that was given
\* and when main completes; with a non-zero code when the path is no file and no
\* directory, when a video fails to open, and when no output folder is
\* selected; in the invalid-path and no-folder cases no video was opened and
\* nothing was written.
C15_ExitCodes ==
    [][(Terminated' /\ ~Terminated)
        => /\ (usage /\ input_kind = "missing") => exit_code' = 0
           /\ (~usage /\ pc = "batch") => exit_code' = 0
           /\ (~usage /\ pc = "open") => exit_code' # 0
           /\ (~usage /\ (pc = "select" \/ input_kind \in {"invalid", "missing"}))
                => /\ exit_code' # 0
                   /\ video' = 0
                   /\ images' = {} /\ csv' = <<>> /\ output_csv' = <<>>]_vars


\* C16: the render block advances current_frame by one, up to
\* frame_count - 1, when the session is not paused (and a frame was read), and
\* leaves it alone when the session is paused; inside a session only the
\* step and scroll events and the render block change current_frame.
C16_AutoplayRule ==
    [][/\ \A success \in BOOLEAN :
            RenderWith(success)
                => IF paused'
                   THEN current_frame' = current_frame
                   ELSE success
                          => current_frame' = Min(frame_count - 1, current_frame + 1)
       /\ (InSession /\ pc' \in {"events", "render"}
                     /\ current_frame' # current_frame)
            => (ScrollUp \/ ScrollDown \/ KeyComma \/ KeyPeriod \/ Render)]_vars

\* C17: handling a space-bar press flips paused and changes nothing else, and
\* paused changes only in a loop iteration that received a new press.
C17_PauseFlipsOncePerPress ==
    [][/\ (KeySpace /\ program = "exporter")
            => /\ paused' = ~paused
               /\ UNCHANGED <<current_frame, first_frame, last_frame,
                              accident_occurred, running>>
       /\ (InSession /\ pc' \in {"events", "render"} /\ paused' # paused)
            => \/ KeySpace /\ program = "exporter"
               \/ Render /\ program = "exporter2" /\ space_key = "pressed"]_vars

\* C18: K_f at a frame other than first_frame sets first_frame to it and
\* leaves last_frame; K_l clears last_frame when it is the current frame and
\* sets it to the current frame otherwise, with first_frame empty or not, and
\* leaves first_frame; neither changes the accident flag, the position or
\* paused.
C18_TogglesTouchOwnField ==
    [][/\ (KeyF /\ first_frame # current_frame)
            => first_frame' = current_frame /\ last_frame' = last_frame
       /\ KeyF => UNCHANGED <<accident_occurred, current_frame, paused>>
       /\ KeyL
            => /\ last_frame' = IF last_frame = current_frame THEN None
                                                            ELSE current_frame
               /\ UNCHANGED <<first_frame, accident_occurred, current_frame,
                              paused>>]_vars

\* K_l has just marked the last frame while first_frame is empty.
C18_Witness ==
    /\ pc = "events"
    /\ event = "K_l"
    /\ first_frame = None
    /\ last_frame = current_frame
    /\ current_frame > 0
    /\ accident_occurred

\* C19: with frame_count >= 1, first_frame and last_frame are each None or
\* an index in 0..frame_count-1, so an export reads frames of the video only.
C19_MarksInsideVideo ==
    frame_count >= 1
        => /\ first_frame \in {None} \cup 0..(frame_count - 1)
           /\ last_frame \in {None} \cup 0..(frame_count - 1)
           /\ ExportGate(first_frame, last_frame)
                => {first_frame, last_frame} \subseteq 0..(frame_count - 1)

\* The last frame of a video is marked first and frame 0 last.
C19_Witness ==
    /\ InSession
    /\ frame_count > 1
    /\ first_frame = frame_count - 1
    /\ last_frame = 0
    /\ event = "K_l"

\* C20: running becomes false only by a QUIT or a K_n event, and the loop of
\* a video is left only because running is false or, in exporter2.py, by a
\* successful export.
C20_SessionEndsOnlyByQuitSkipExport ==
    [][/\ (InSession /\ running /\ ~running') => (Quit \/ KeyN)
       /\ (InSession /\ pc' \notin {"events", "render"})
            => \/ pc = "render" /\ ~running /\ pc' = "batch"
               \/ program = "exporter2" /\ ExportSucceeds]_vars

====
